---------------------------- MODULE Spec2Model ----------------------------
(***************************************************************************)
(* Model of the hncli website's UI composition layer:                      *)
(*   - the Button component, in its two versions                           *)
(*       "legacy" : website/src/lib/Button.svelte (export let props)       *)
(*       "runes"  : the $props() version (FeatureFocus.svelte:44-118)      *)
(*   - the FeatureCard component (FeatureCard.svelte:1-81)                 *)
(*   - the ClipboardCommandLines component and utils.writeToClipboard      *)
(*                                                                         *)
(* A JavaScript string is a sequence of tokens: a token is a word, the     *)
(* space character SP or the newline character NL.  Concatenation is \o.   *)
(* An optional value is a record [def, val]; def = FALSE is `undefined`.   *)
(***************************************************************************)
EXTENDS Integers, Sequences, FiniteSets

VARIABLES
    button,     \* the Button instance last rendered, with its props
    snapshot,   \* an earlier rendering of a Button, kept for comparison
    card,       \* the FeatureCard instance last rendered, with its props
    block,      \* the mounted ClipboardCommandLines instance
    sibling,    \* the ClipboardCommandLines instance mounted after it
    calls,      \* the invocations of writeToClipboard, in call order
    writes,     \* the calls of navigator.clipboard.writeText, in call order
    clipboard,  \* the text held by the system clipboard
    applied,    \* the calls whose write the clipboard applied, in order
    console,    \* the errors passed to console.log, in order
    clicks,     \* the number of activations of the copy button
    clipboardApi, \* whether navigator.clipboard exists in this environment
    currentSection,    \* the feature section selected
    currentScreenshot, \* the reactive value derived from currentSection
    imgSrc,            \* the src of the screenshot <img> in the DOM
    clicked            \* the sections of the buttons clicked, in order

buttonVars == << button, snapshot >>
cardVars == << card >>
clipVars ==
    << block, sibling, calls, writes, clipboard, applied, console, clicks,
       clipboardApi >>
featVars == << currentSection, currentScreenshot, imgSrc, clicked >>
vars == << buttonVars, cardVars, clipVars, featVars >>

SP == " "
NL == "\n"

\* A string value from a list of words: the words with one SP between them.
RECURSIVE Words(_)
Words(ws) ==
    IF Len(ws) = 0 THEN << >>
    ELSE IF Len(ws) = 1 THEN << ws[1] >>
    ELSE << ws[1], SP >> \o Words(Tail(ws))

Undefined     == [def |-> FALSE, val |-> << >>]
Some(v)       == [def |-> TRUE, val |-> v]
UndefinedBool == [def |-> FALSE, val |-> FALSE]

\* ToString of an optional string, as `${x}` in a template literal and the
\* DOMString conversion of an argument apply it: undefined is "undefined".
ToString(x) == IF x.def THEN x.val ELSE << "undefined" >>

\* x ?? d
Coalesce(x, d) == IF x.def THEN x.val ELSE d

\* JavaScript truthiness of an optional string / an optional boolean.
TruthyString(x) == x.def /\ Len(x.val) > 0
TruthyBool(x) == x.def /\ x.val

\* Array.prototype.join: the strings of `strs`, with `sep` between
\* consecutive ones; the empty string for an empty array.
RECURSIVE Join(_, _)
Join(strs, sep) ==
    IF Len(strs) = 0 THEN << >>
    ELSE IF Len(strs) = 1 THEN strs[1]
    ELSE strs[1] \o sep \o Join(Tail(strs), sep)

-----------------------------------------------------------------------------
(* Button: the style tables, identical in both versions.                   *)

ButtonVariant == {"solid", "outline"}
ButtonColor == {"red", "white", "gray"}

baseStyles ==
    [solid |-> Words(<< "inline-flex", "justify-center", "rounded-lg", "py-2",
                        "px-3", "text-sm", "font-semibold", "outline-2",
                        "outline-offset-2", "transition-colors" >>),
     outline |-> Words(<< "inline-flex", "justify-center", "rounded-lg",
                          "border", "py-[calc(theme(spacing.2)-1px)]",
                          "px-[calc(theme(spacing.3)-1px)]", "text-sm",
                          "outline-2", "outline-offset-2",
                          "transition-colors" >>)]

variantStyles ==
    [solid |->
        [red |-> Words(<< "relative", "overflow-hidden", "bg-hncli-dark-red",
                          "text-white", "before:absolute", "before:inset-0",
                          "active:before:bg-transparent",
                          "hover:before:bg-white/10",
                          "active:bg-hncli-dark-red", "active:text-white/80",
                          "before:transition-colors" >>),
         white |-> Words(<< "bg-white", "text-cyan-900", "hover:bg-white/90",
                            "active:bg-white/90",
                            "active:text-cyan-900/70" >>),
         gray |-> Words(<< "bg-gray-800", "text-white", "hover:bg-gray-900",
                           "active:bg-gray-800", "active:text-white/80" >>)],
     outline |->
        [red |-> << >>,
         white |-> << >>,
         gray |-> Words(<< "border-gray-300", "text-gray-700",
                           "hover:border-gray-400", "active:bg-gray-100",
                           "active:text-gray-700/80" >>)]]

\* buttonColor without the outline coercion: `color ?? "gray"` alone.
buttonColor_NoCoercion(variant, color) ==
    IF color = "undefined" THEN "gray" ELSE color

\* color is "undefined" when the prop is omitted.
buttonColor(variant, color) ==
    IF variant = "outline" THEN "gray"
    ELSE IF color = "undefined" THEN "gray" ELSE color

\* The variant in effect: `export let variant = "solid"` when omitted.
EffectiveVariant(p) == IF p.variant = "undefined" THEN "solid" ELSE p.variant

\* buttonClass behind a cache keyed by the variant alone: the class of the
\* previous rendering is reused when the variant is the same.
buttonClass_CachedByVariant(variant, color, extraClass) ==
    IF button.impl # "none" /\ EffectiveVariant(button.props) = variant
    THEN button.el.class
    ELSE baseStyles[variant] \o << SP >>
            \o variantStyles[variant][buttonColor(variant, color)]
            \o << SP >> \o ToString(extraClass)

\* `${baseStyles[variant]} ${variantStyles[variant][buttonColor]} ${extraClass}`
buttonClass(variant, color, extraClass) ==
    baseStyles[variant] \o << SP >>
        \o variantStyles[variant][buttonColor(variant, color)] \o << SP >>
        \o ToString(extraClass)

-----------------------------------------------------------------------------
(* Button: props and rendering.                                            *)
(* One props shape serves both versions; a version reads only the props it *)
(* declares.  type is "undefined" and onclick FALSE where not declared.    *)

ExtraClassValues ==
    {Undefined, Some(<< >>), Some(<< "copy-button" >>),
     Some(<< "foo", SP, "bar" >>)}
HrefValues == {Some(<< >>), Some(<< "https://x" >>)}
TitleValues == {Undefined, Some(Words(<< "Copy", "to", "Clipboard" >>))}

\* Button.svelte: export let variant = "solid"; color; externalLink; href;
\* extraClass = "".  Any declared prop may be omitted by the caller.
LegacyButtonProps ==
    [type : {"undefined"},
     variant : ButtonVariant \cup {"undefined"},
     color : ButtonColor \cup {"undefined"},
     externalLink : {UndefinedBool, Some(TRUE), Some(FALSE)},
     href : {Undefined} \cup HrefValues,
     onclick : {FALSE},
     title : {Undefined},
     ariaLabel : {Undefined},
     extraClass : ExtraClassValues]

\* type ButtonProps: ({link, externalLink, href} | {action, onclick})
\*                 & ({solid, red|white|gray} | {outline, gray})
ButtonProps ==
    { p \in [type : {"link", "action"},
             variant : ButtonVariant,
             color : ButtonColor,
             externalLink : {UndefinedBool, Some(TRUE), Some(FALSE)},
             href : {Undefined} \cup HrefValues,
             onclick : BOOLEAN,
             title : TitleValues,
             ariaLabel : TitleValues,
             extraClass : ExtraClassValues] :
        /\ p.type = "link" =>
              p.externalLink.def /\ p.href.def /\ ~p.onclick
        /\ p.type = "action" =>
              ~p.externalLink.def /\ ~p.href.def /\ p.onclick
        /\ p.variant = "outline" => p.color = "gray" }

\* The element a Button instance renders, with the props it was given.
NoButton == [impl |-> "none"]

Element(tag, class, href, target, rel, title, ariaLabel, onclick) ==
    [tag |-> tag, class |-> class, href |-> href, target |-> target,
     rel |-> rel, title |-> title, ariaLabel |-> ariaLabel,
     onclick |-> onclick]

Blank == Some(<< "_blank" >>)
NoOpener == Some(Words(<< "noopener", "noreferrer" >>))

\* Button.svelte:24-47
LegacyButton(p) ==
    LET variant == EffectiveVariant(p)
        extraClass == Some(Coalesce(p.extraClass, << >>))
        class == buttonClass(variant, p.color, extraClass)
    IN  IF TruthyString(p.href)
        THEN Element("a", class, p.href,
                     IF TruthyBool(p.externalLink) THEN Blank ELSE Undefined,
                     IF TruthyBool(p.externalLink) THEN NoOpener ELSE Undefined,
                     Undefined, Undefined, FALSE)
        ELSE Element("button", class, Undefined, Undefined, Undefined,
                     Undefined, Undefined, FALSE)

\* FeatureFocus.svelte:97-118
Button(p) ==
    LET class == buttonClass(p.variant, p.color, p.extraClass)
    IN  IF p.type = "link"
        THEN Element("a", class, p.href,
                     IF TruthyBool(p.externalLink) THEN Blank ELSE Undefined,
                     IF TruthyBool(p.externalLink) THEN NoOpener ELSE Undefined,
                     p.title, p.ariaLabel, FALSE)
        ELSE Element("button", class, Undefined, Undefined, Undefined,
                     p.title, p.ariaLabel, p.onclick)

\* A kept rendering, once another rendering has followed it.
Followed(s) == IF s.impl = "none" THEN s ELSE [s EXCEPT !.followed = TRUE]

RenderLegacyButtonWith(p) ==
    /\ button' = [impl |-> "legacy", props |-> p, el |-> LegacyButton(p)]
    /\ snapshot' = Followed(snapshot)
    /\ UNCHANGED << cardVars, clipVars, featVars >>

RenderButtonWith(p) ==
    /\ button' = [impl |-> "runes", props |-> p, el |-> Button(p)]
    /\ snapshot' = Followed(snapshot)
    /\ UNCHANGED << cardVars, clipVars, featVars >>

RenderLegacyButton == \E p \in LegacyButtonProps : RenderLegacyButtonWith(p)

RenderButton == \E p \in ButtonProps : RenderButtonWith(p)

ButtonInit == button = NoButton /\ snapshot = NoButton
ButtonNext == RenderLegacyButton \/ RenderButton

\* Repeated resolution, with one earlier rendering kept for comparison.
\* The configurations vary in what the class and the element depend on.
ReplayLegacyProps ==
    { p \in LegacyButtonProps :
        /\ p.color # "white"
        /\ p.externalLink = UndefinedBool
        /\ p.href # Some(<< >>)
        /\ p.extraClass \in {Undefined, Some(<< "copy-button" >>)} }

ReplayButtonProps ==
    { p \in ButtonProps :
        /\ p.type = "link" => p.externalLink = Some(TRUE)
        /\ p.type = "link" => p.href = Some(<< "https://x" >>)
        /\ p.title = Undefined /\ p.ariaLabel = Undefined
        /\ p.extraClass \in {Undefined, Some(<< "copy-button" >>)} }

ReplayLegacyButton == \E p \in ReplayLegacyProps : RenderLegacyButtonWith(p)

ReplayButton == \E p \in ReplayButtonProps : RenderButtonWith(p)

TakeSnapshot ==
    /\ button.impl # "none"
    /\ snapshot' = [impl |-> button.impl, props |-> button.props,
                    el |-> button.el, followed |-> FALSE]
    /\ UNCHANGED << button, cardVars, clipVars, featVars >>

ReplayNext == ReplayLegacyButton \/ ReplayButton \/ TakeSnapshot

-----------------------------------------------------------------------------
(* Properties of Button, checked under SpecButton.                         *)

Rendered == button.impl # "none"

IsPrefix(s, t) == Len(s) <= Len(t) /\ SubSeq(t, 1, Len(s)) = s

\* The (variant, color) pairs the data model forbids.
IllegalPair(p) == p.variant = "outline" /\ p.color \in {"red", "white"}

\* A configuration of the data model: both axes given, and the pair legal.
ValidConfig(p) ==
    p.variant \in ButtonVariant /\ p.color \in ButtonColor /\ ~IllegalPair(p)

\* The action kind of a configuration.  The runes version carries it in
\* `type`; the legacy version has no such prop, a link is a configuration
\* that supplies href.
ActionKind(b) ==
    IF b.impl = "runes" THEN b.props.type
    ELSE IF b.props.href.def THEN "link" ELSE "action"

OpensExternally(b) == TruthyBool(b.props.externalLink)

\* The tokens the caller supplied: none when extraClass is omitted.
CallerTokens(p) == IF p.extraClass.def THEN p.extraClass.val ELSE << >>

C5_BaseOverlayExtra ==
    (Rendered /\ ValidConfig(button.props)) =>
        button.el.class =
            baseStyles[button.props.variant] \o << SP >>
                \o variantStyles[button.props.variant][button.props.color]
                \o << SP >> \o CallerTokens(button.props)

\* C8: the element rendered is an anchor exactly when the action kind is
\* Link, whatever the href; otherwise it is a button.
C8_AnchorIffLink ==
    Rendered =>
        /\ button.el.tag \in {"a", "button"}
        /\ (button.el.tag = "a") <=> (ActionKind(button) = "link")

\* C9: for every Link configuration, target is "_blank" and rel is
\* "noopener noreferrer" exactly when opensExternally is true, and both are
\* left undefined exactly when it is false.
C9_TargetRelFromExternal ==
    (Rendered /\ ActionKind(button) = "link") =>
        /\ OpensExternally(button) =>
              button.el.target = Blank /\ button.el.rel = NoOpener
        /\ ~OpensExternally(button) =>
              button.el.target = Undefined /\ button.el.rel = Undefined

\* The tokens of a string.
Tokens(str) == {str[k] : k \in 1..Len(str)}

\* C15: when extraClass is omitted from a valid configuration, the style
\* class is made of the base style and the color overlay only: every token
\* of it is a token of one of the two table entries or a separating space, and
\* the text "undefined" is not among them.
C15_NoForeignToken ==
    (Rendered /\ ValidConfig(button.props) /\ ~button.props.extraClass.def) =>
        /\ Tokens(button.el.class) \subseteq
              Tokens(baseStyles[button.props.variant])
                \cup Tokens(variantStyles[button.props.variant]
                                         [button.props.color])
                \cup {SP}
        /\ "undefined" \notin Tokens(button.el.class)

-----------------------------------------------------------------------------
(* FeatureCard (FeatureCard.svelte:1-81).                                  *)

OptBool == {UndefinedBool, Some(TRUE), Some(FALSE)}
Eyebrow == Words(<< "Read-Only" >>)
CardTitle == Words(<< "No", "sign-in", "required" >>)
TextDescriptionValues ==
    {Undefined, Some(<< >>), Some(Words(<< "No", "account", "required" >>))}

\* interface FeatureCardProps; image is required, description is optional
\* (TRUE: the snippet is supplied).
FeatureCardProps ==
    [eyebrow : {Eyebrow},
     title : {CardTitle},
     textDescription : TextDescriptionValues,
     extraClass : ExtraClassValues,
     fadeTop : OptBool,
     fadeBottom : OptBool,
     small : OptBool,
     image : {TRUE},
     description : BOOLEAN]

\* The destructuring defaults of $props().
CardDefaults(p) ==
    [p EXCEPT !.extraClass = Some(Coalesce(p.extraClass, << >>)),
              !.fadeTop = Some(Coalesce(p.fadeTop, FALSE)),
              !.fadeBottom = Some(Coalesce(p.fadeBottom, FALSE)),
              !.small = Some(Coalesce(p.small, FALSE))]

\* containerClass with the caller's tokens last, as in the Button.
containerClass_ExtraLast(extraClass, small) ==
    Join(<< IF small THEN << "grid-rows-1" >> ELSE << "lg:grid-rows-2" >>,
            Words(<< "group", "relative", "flex", "flex-col",
                     "overflow-hidden", "rounded-lg" >>),
            Words(<< "bg-white", "shadow-xs", "ring-1", "ring-black/5" >>),
            Coalesce(extraClass, << >>) >>,
         << SP >>)

containerClass(extraClass, small) ==
    Join(<< Coalesce(extraClass, << >>),
            IF small THEN << "grid-rows-1" >> ELSE << "lg:grid-rows-2" >>,
            Words(<< "group", "relative", "flex", "flex-col",
                     "overflow-hidden", "rounded-lg" >>),
            Words(<< "bg-white", "shadow-xs", "ring-1", "ring-black/5" >>) >>,
         << SP >>)

\* The description paragraph with the fragment taking precedence.
CardBody_FragmentFirst(textDescription, description) ==
    IF description
    THEN [literal |-> Undefined, fragment |-> TRUE]
    ELSE [literal |-> textDescription, fragment |-> FALSE]

\* {#if textDescription} {textDescription} {:else} {@render description?.()}
\* literal: the text rendered, if any; fragment: the snippet was rendered.
CardBody(textDescription, description) ==
    IF TruthyString(textDescription)
    THEN [literal |-> textDescription, fragment |-> FALSE]
    ELSE [literal |-> Undefined, fragment |-> description]

\* The two heights the wrong way round.
ImageHeight_Inverted(large) == IF large THEN "h-40" ELSE "h-80"

\* .image-container { h-40 }  &.large { h-80 }
ImageHeight(large) == IF large THEN "h-80" ELSE "h-40"

\* Both overlays conditioned on fadeTop.
FadeOverlays_BothFromTop(fadeTop, fadeBottom) ==
    [top |-> fadeTop, bottom |-> fadeTop]

\* {#if fadeTop} <div ...to-b...> {/if} {#if fadeBottom} <div ...to-t...> {/if}
\* Which of the two gradient overlays are in the image container.
FadeOverlays(fadeTop, fadeBottom) ==
    [top |-> fadeTop, bottom |-> fadeBottom]

FeatureCard(props) ==
    LET p == CardDefaults(props)
    IN  [containerClass |-> containerClass(p.extraClass, p.small.val),
         large |-> ~p.small.val,
         imageHeight |-> ImageHeight(~p.small.val),
         image |-> p.image,
         topOverlay |-> FadeOverlays(p.fadeTop.val, p.fadeBottom.val).top,
         bottomOverlay |-> FadeOverlays(p.fadeTop.val, p.fadeBottom.val).bottom,
         eyebrow |-> p.eyebrow,
         title |-> p.title,
         body |-> CardBody(p.textDescription, p.description)]

NoCard == [mounted |-> FALSE]

RenderFeatureCard ==
    \E p \in FeatureCardProps :
        /\ card' = [mounted |-> TRUE, props |-> p, out |-> FeatureCard(p)]
        /\ UNCHANGED << buttonVars, clipVars, featVars >>

CardInit == card = NoCard
CardNext == RenderFeatureCard

-----------------------------------------------------------------------------
(* Properties of FeatureCard, checked under SpecCard.                     *)

\* The fixed structural tokens, word by word.
StructuralTokens ==
    << "group", SP, "relative", SP, "flex", SP, "flex-col", SP,
       "overflow-hidden", SP, "rounded-lg", SP, "bg-white", SP, "shadow-xs",
       SP, "ring-1", SP, "ring-black/5" >>

Compact(p) == TruthyBool(p.small)
LayoutToken(p) == IF Compact(p) THEN "grid-rows-1" ELSE "lg:grid-rows-2"

\* C6: containerClass is the caller's extra tokens, then the layout token
\* chosen from compact, then the fixed structural tokens, separated by single
\* spaces: every caller token precedes the layout token, which precedes every
\* structural token.
C6_ExtraLayoutStructural ==
    card.mounted =>
        LET e == CallerTokens(card.props)
            c == card.out.containerClass
        IN  /\ Len(c) = Len(e) + 3 + Len(StructuralTokens)
            /\ SubSeq(c, 1, Len(e)) = e
            /\ c[Len(e) + 1] = SP
            /\ c[Len(e) + 2] = LayoutToken(card.props)
            /\ c[Len(e) + 3] = SP
            /\ SubSeq(c, Len(e) + 4, Len(c)) = StructuralTokens

C6_Witness ==
    /\ card.mounted
    /\ card.props.extraClass = Some(<< "foo", SP, "bar" >>)
    /\ card.props.small = Some(TRUE)
    /\ card.out.containerClass[1] = "foo"

\* C7: the body is the literal exactly when a non-empty textDescription is
\* supplied, and the fragment otherwise; the two are never both rendered, and
\* a supplied fragment is not rendered when a non-empty literal is present.
C7_LiteralPrecedence ==
    card.mounted =>
        LET nonEmpty == /\ card.props.textDescription.def
                        /\ card.props.textDescription.val # << >>
            b == card.out.body
        IN  /\ b.literal.def <=> nonEmpty
            /\ b.literal.def => b.literal.val = card.props.textDescription.val
            /\ ~(b.literal.def /\ b.fragment)
            /\ b.fragment <=> (~nonEmpty /\ card.props.description)

C7_Witness ==
    /\ card.mounted
    /\ card.props.textDescription.def
    /\ card.props.textDescription.val # << >>
    /\ card.props.description
    /\ card.out.body.literal.def
    /\ ~card.out.body.fragment

\* C13: the top overlay is painted exactly when fadeTop is set and the bottom
\* overlay exactly when fadeBottom is set; each is decided by its own flag
\* alone, whatever the other flag, compact, the body and the extra tokens.
C13_OverlaysFollowFlags ==
    card.mounted =>
        /\ card.out.topOverlay <=> TruthyBool(card.props.fadeTop)
        /\ card.out.bottomOverlay <=> TruthyBool(card.props.fadeBottom)

C13_Witness ==
    /\ card.mounted
    /\ card.props.fadeTop = Some(TRUE)
    /\ card.props.fadeBottom = Some(FALSE)
    /\ card.props.small = Some(TRUE)
    /\ card.props.extraClass = Some(<< "foo", SP, "bar" >>)
    /\ card.out.body.literal.def
    /\ card.out.topOverlay
    /\ ~card.out.bottomOverlay

\* C14: the image region is short (h-40) exactly when compact is true and
\* tall (h-80) exactly when it is false; the layout token is grid-rows-1
\* exactly when compact is true and lg:grid-rows-2 otherwise; so the two
\* always agree, and there is no third height or layout.
C14_HeightAndLayoutFromCompact ==
    card.mounted =>
        LET layout ==
                card.out.containerClass[Len(CallerTokens(card.props)) + 2]
        IN  /\ card.out.imageHeight \in {"h-40", "h-80"}
            /\ layout \in {"grid-rows-1", "lg:grid-rows-2"}
            /\ card.out.imageHeight = "h-40" <=> Compact(card.props)
            /\ layout = "grid-rows-1" <=> Compact(card.props)
            /\ card.out.large <=> ~Compact(card.props)

C14_Witness ==
    /\ card.mounted
    /\ card.props.small = Some(TRUE)
    /\ card.out.imageHeight = "h-40"
    /\ card.out.containerClass[Len(CallerTokens(card.props)) + 2]
          = "grid-rows-1"

-----------------------------------------------------------------------------
(* ClipboardCommandLines (ClipboardCommandLines.svelte:1-50) and           *)
(* writeToClipboard (utils).                                               *)

MaxLines == 2    \* the longest command block rendered
MaxClicks == 2   \* the activations of the copy button in one behaviour

LineValues == {<< >>, << "cmd1" >>, Words(<< "cargo", "run" >>)}

RECURSIVE SeqsUpTo(_, _)
SeqsUpTo(S, n) ==
    IF n = 0 THEN {<< >>}
    ELSE LET shorter == SeqsUpTo(S, n - 1)
         IN  shorter \cup {Append(q, x) : q \in shorter, x \in S}

\* interface ClipboardCommandLinesProps { lines; extraClass? }
ClipboardCommandLinesProps ==
    [lines : SeqsUpTo(LineValues, MaxLines),
     extraClass : {Undefined, Some(<< "md:ml-24" >>)}]

\* lines[0]: undefined when the array is empty.
FirstLine(lines) == IF Len(lines) = 0 THEN Undefined ELSE Some(lines[1])

\* The props ClipboardCommandLines passes to its Button.
CopyButtonProps ==
    [type |-> "action", variant |-> "outline", color |-> "gray",
     externalLink |-> UndefinedBool, href |-> Undefined, onclick |-> TRUE,
     title |-> Some(Words(<< "Copy", "to", "Clipboard" >>)),
     ariaLabel |-> Undefined, extraClass |-> Some(<< "copy-button" >>)]

\* content joined with a space instead of a newline.
content_SpaceJoined(lines) == Join(lines, << SP >>)

\* const content = $derived(lines.join("\n"))
content(lines) == Join(lines, << NL >>)

\* `container ${extraClass ?? ""}`
blockContainerClass(extraClass) ==
    << "container", SP >> \o Coalesce(extraClass, << >>)

\* onCopy passing the displayed text instead of the first line.
onCopyArgument_Content(lines) == Some(content(lines))

\* const onCopy = () => writeToClipboard(lines[0]): the argument passed.
onCopyArgument(lines) == FirstLine(lines)

\* The markup of one instance; impl is the version of $lib/Button in use.
ClipboardCommandLines(p, impl) ==
    [containerClass |-> blockContainerClass(p.extraClass),
     content |-> content(p.lines),
     copyButton |-> IF impl = "legacy" THEN LegacyButton(CopyButtonProps)
                    ELSE Button(CopyButtonProps)]

NoBlock == [mounted |-> FALSE]

RenderClipboardCommandLines ==
    /\ ~block.mounted
    /\ \E p \in ClipboardCommandLinesProps, impl \in {"legacy", "runes"} :
          block' = [mounted |-> TRUE, props |-> p, impl |-> impl,
                    out |-> ClipboardCommandLines(p, impl)]
    /\ UNCHANGED << sibling, calls, writes, clipboard, applied, console,
                    clicks, clipboardApi >>
    /\ UNCHANGED << buttonVars, cardVars, featVars >>

\* Installation mounts one instance per option, in order; the second option.
SiblingProps ==
    [lines |-> << Words(<< "cargo", "run", "--release" >>) >>,
     extraClass |-> Some(<< "md:ml-24" >>)]

RenderSibling ==
    /\ block.mounted
    /\ ~sibling.mounted
    /\ sibling' = [mounted |-> TRUE, props |-> SiblingProps,
                   impl |-> block.impl,
                   out |-> ClipboardCommandLines(SiblingProps, block.impl)]
    /\ UNCHANGED << block, calls, writes, clipboard, applied, console,
                    clicks, clipboardApi >>
    /\ UNCHANGED << buttonVars, cardVars, featVars >>

\* writeToClipboard without its try/catch: a failure rejects the promise.
writeToClipboardResult_NoCatch(outcome) ==
    IF outcome = "ok"
    THEN [promise |-> "fulfilled", logged |-> FALSE]
    ELSE [promise |-> "rejected", logged |-> FALSE]

\* try { await writeText(text) } catch (err) { console.log(err) }
\* The state the async function's promise settles in, and whether the catch
\* block logged, for each outcome of the try body: "ok", "rejected" (the
\* awaited promise rejects) or "absent" (navigator.clipboard is undefined
\* and the member access throws a TypeError).
writeToClipboardResult(outcome) ==
    IF outcome = "ok"
    THEN [promise |-> "fulfilled", logged |-> FALSE]
    ELSE [promise |-> "fulfilled", logged |-> TRUE]

\* writeToClipboard behind an in-flight guard: while a write is pending, a
\* further invocation returns without issuing one.
writeToClipboard_Deduplicated(text) ==
    IF clipboardApi = "present" /\ \E i \in 1..Len(calls) : calls[i].pc = "await"
    THEN /\ calls' = Append(calls, [text |-> text, pc |-> "done",
                                    outcome |-> "ok",
                                    promise |-> "fulfilled"])
         /\ UNCHANGED << writes, clipboard, console >>
    ELSE IF clipboardApi = "absent"
    THEN /\ calls' = Append(calls, [text |-> text, pc |-> "done",
                                    outcome |-> "absent",
                                    promise |-> "fulfilled"])
         /\ console' = Append(console, Len(calls) + 1)
         /\ UNCHANGED << writes, clipboard >>
    ELSE /\ calls' = Append(calls, [text |-> text, pc |-> "await",
                                    outcome |-> "pending",
                                    promise |-> "pending"])
         /\ writes' = Append(writes, [call |-> Len(calls) + 1,
                                      text |-> ToString(text)])
         /\ UNCHANGED << clipboard, console >>

\* writeToClipboard(text), up to its first suspension.  With no clipboard
\* API the TypeError is thrown and handled before any suspension; otherwise
\* writeText is called with the argument converted to a string, and the
\* function awaits.
writeToClipboard(text) ==
    LET i == Len(calls) + 1
    IN  IF clipboardApi = "absent"
        THEN LET r == writeToClipboardResult("absent")
             IN  /\ calls' = Append(calls, [text |-> text, pc |-> "done",
                                            outcome |-> "absent",
                                            promise |-> r.promise])
                 /\ console' = IF r.logged THEN Append(console, i) ELSE console
                 /\ UNCHANGED << writes, clipboard >>
        ELSE /\ calls' = Append(calls, [text |-> text, pc |-> "await",
                                        outcome |-> "pending",
                                        promise |-> "pending"])
             /\ writes' = Append(writes, [call |-> i, text |-> ToString(text)])
             /\ UNCHANGED << clipboard, console >>

\* An activation of the copy button of instance b: the element's onclick
\* handler, if one is attached, runs the instance's onCopy.
Click(b) ==
    /\ b.mounted
    /\ clicks < MaxClicks
    /\ clicks' = clicks + 1
    /\ IF b.out.copyButton.onclick
       THEN writeToClipboard(onCopyArgument(b.props.lines))
       ELSE UNCHANGED << calls, writes, clipboard, console >>
    /\ UNCHANGED << block, sibling, applied, clipboardApi >>
    /\ UNCHANGED << buttonVars, cardVars, featVars >>

ClickCopy == Click(block)

ClickSiblingCopy == Click(sibling)

\* The clipboard applies the write of call i: it now holds that text.  The
\* promise of writeText resolves later.
ClipboardApplies(i) ==
    /\ calls[i].pc = "await"
    /\ \A k \in 1..Len(applied) : applied[k] # i
    /\ LET w == CHOOSE k \in 1..Len(writes) : writes[k].call = i
       IN  clipboard' = Some(writes[w].text)
    /\ applied' = Append(applied, i)
    /\ UNCHANGED << block, sibling, calls, writes, console, clicks,
                    clipboardApi >>
    /\ UNCHANGED << buttonVars, cardVars, featVars >>

\* The promise awaited by call i resolves, its write being applied: the
\* function resumes after the await and returns.
WriteSucceeds(i) ==
    /\ calls[i].pc = "await"
    /\ \E k \in 1..Len(applied) : applied[k] = i
    /\ LET r == writeToClipboardResult("ok")
       IN  /\ calls' = [calls EXCEPT ![i] = [@ EXCEPT !.pc = "done",
                                                      !.outcome = "ok",
                                                      !.promise = r.promise]]
           /\ console' = IF r.logged THEN Append(console, i) ELSE console
    /\ UNCHANGED << block, sibling, writes, clipboard, applied, clicks,
                    clipboardApi >>
    /\ UNCHANGED << buttonVars, cardVars, featVars >>

\* The write awaited by call i is rejected (permission denied, document not
\* focused): the clipboard is left alone and the await throws.
WriteRejected(i) ==
    /\ calls[i].pc = "await"
    /\ \A k \in 1..Len(applied) : applied[k] # i
    /\ LET r == writeToClipboardResult("rejected")
       IN  /\ calls' = [calls EXCEPT ![i] = [@ EXCEPT !.pc = "done",
                                                      !.outcome = "rejected",
                                                      !.promise = r.promise]]
           /\ console' = IF r.logged THEN Append(console, i) ELSE console
    /\ UNCHANGED << block, sibling, writes, clipboard, applied, clicks,
                    clipboardApi >>
    /\ UNCHANGED << buttonVars, cardVars, featVars >>

\* envs: the environments the page may be loaded in.
ClipInit(envs) ==
    /\ block = NoBlock
    /\ sibling = NoBlock
    /\ calls = << >>
    /\ writes = << >>
    /\ clipboard = Undefined
    /\ applied = << >>
    /\ console = << >>
    /\ clicks = 0
    /\ clipboardApi \in envs

-----------------------------------------------------------------------------
(* The feature-section selector (Features, legacy version).                *)

MaxSectionClicks == 4   \* the section buttons clicked in one behaviour

featureSections == << "Comments", "ContextualHelp", "Settings" >>

\* The descriptions, displayed only, are left out; assets are named by file.
featuresMeta ==
    [Comments |->
        [title |-> Words(<< "Browse", "through", "every", "comment" >>),
         icon |-> "chat-bubble-left-right.svg",
         screenshot |-> "comments.png"],
     ContextualHelp |->
        [title |-> Words(<< "Pick", "up", "topics", "from", "where", "you",
                            "last", "read", "its", "comments" >>),
         icon |-> "question-mark-circle.svg",
         screenshot |-> "contextual-help.png"],
     Settings |->
        [title |-> Words(<< "Customize", "your", "experience" >>),
         icon |-> "cog-8-tooth.svg",
         screenshot |-> "settings.png"]]

\* Object.entries(featuresMeta): one button per key.
SectionIds == DOMAIN featuresMeta

\* currentScreenshot computed once at creation, not reactively.
ReactiveScreenshot_Once(section) == featuresMeta.Comments.screenshot

\* $: currentScreenshot = featuresMeta[currentSection].screenshot
ReactiveScreenshot(section) == featuresMeta[section].screenshot

\* let currentSection = "Comments"; the reactive statement has run and the
\* markup is rendered.
FeaturesInit ==
    /\ currentSection = "Comments"
    /\ currentScreenshot = ReactiveScreenshot("Comments")
    /\ imgSrc = ReactiveScreenshot("Comments")
    /\ clicked = << >>

\* on:click={() => changeSection(sectionId)}: the assignment, then the
\* update it schedules: the reactive statement, then the DOM.
ClickSection(sectionId) ==
    /\ Len(clicked) < MaxSectionClicks
    /\ clicked' = Append(clicked, sectionId)
    /\ currentSection' = sectionId
    /\ currentScreenshot' = ReactiveScreenshot(currentSection')
    /\ imgSrc' = currentScreenshot'
    /\ UNCHANGED << buttonVars, cardVars, clipVars >>

FeaturesNext == \E sectionId \in SectionIds : ClickSection(sectionId)

-----------------------------------------------------------------------------
(* Specifications: one per component, the components share no state.       *)

Environments == {"present", "absent"}

Init == ButtonInit /\ CardInit /\ ClipInit(Environments) /\ FeaturesInit

\* Button and FeatureCard never read the clipboard state.
InitBrowser ==
    ButtonInit /\ CardInit /\ ClipInit({"present"}) /\ FeaturesInit

SpecButton == InitBrowser /\ [][ButtonNext]_vars

SpecResolve == InitBrowser /\ [][ReplayNext]_vars

SpecCard == InitBrowser /\ [][CardNext]_vars

\* The events of the clipboard primitive.
ClipboardEvents ==
    \/ \E i \in 1..Len(calls) : ClipboardApplies(i)
    \/ \E i \in 1..Len(calls) : WriteSucceeds(i)
    \/ \E i \in 1..Len(calls) : WriteRejected(i)

\* One command block.
ClipNext ==
    \/ RenderClipboardCommandLines
    \/ ClickCopy
    \/ ClipboardEvents

SpecClipboard == Init /\ [][ClipNext]_vars

\* Two command blocks on one page, as Installation mounts them.
PageNext ==
    \/ RenderClipboardCommandLines
    \/ RenderSibling
    \/ ClickCopy
    \/ ClickSiblingCopy
    \/ ClipboardEvents

SpecClipboardPage == Init /\ [][PageNext]_vars

SpecFeatures == InitBrowser /\ [][FeaturesNext]_vars

Next == ButtonNext \/ ReplayNext \/ CardNext \/ PageNext \/ FeaturesNext

Spec == Init /\ [][Next]_vars

-----------------------------------------------------------------------------
(* Properties of ClipboardCommandLines and writeToClipboard, checked under *)
(* SpecClipboard.                                                          *)

Lines == block.props.lines

WritesOf(i) == {k \in 1..Len(writes) : writes[k].call = i}

Logged(i) == \E k \in 1..Len(console) : console[k] = i

\* The offset in the displayed text at which line i starts.
RECURSIVE Offset(_, _)
Offset(lines, i) ==
    IF i = 1 THEN 0 ELSE Offset(lines, i - 1) + Len(lines[i - 1]) + 1

\* C2: a command block with no line is rejected when it is rendered, so no
\* instance with an empty line sequence is ever mounted, and neither
\* writeToClipboard nor writeText is ever called for one.
C2_EmptyBlockRejected ==
    /\ block.mounted => Lines # << >>
    /\ (block.mounted /\ Lines = << >>) => (calls = << >> /\ writes = << >>)

\* C3: whatever the clipboard primitive does (it succeeds, it rejects, or it
\* does not exist), the promise of a writeToClipboard call is never rejected:
\* it is fulfilled once the call is done, and every failure is logged.
C3_CopyNeverRejects ==
    \A i \in 1..Len(calls) :
        /\ calls[i].promise \in {"pending", "fulfilled"}
        /\ calls[i].pc = "done" <=> calls[i].promise = "fulfilled"
        /\ calls[i].outcome \in {"rejected", "absent"} <=> Logged(i)

C3_Witness ==
    \E i \in 1..Len(calls) :
        /\ calls[i].outcome = "rejected"
        /\ calls[i].promise = "fulfilled"
        /\ Logged(i)

\* C4: for a non-empty block, every invocation of onCopy passes exactly the
\* first line to writeToClipboard, which calls writeText once with that text
\* (never when the primitive does not exist); no other text is ever written.
C4_FirstLineOnly ==
    (block.mounted /\ Lines # << >>) =>
        /\ \A i \in 1..Len(calls) :
              /\ calls[i].text = Some(Lines[1])
              /\ Cardinality(WritesOf(i)) =
                    IF clipboardApi = "present" THEN 1 ELSE 0
        /\ \A k \in 1..Len(writes) :
              /\ writes[k].text = Lines[1]
              /\ writes[k].call \in 1..Len(calls)
        /\ clipboard.def => clipboard.val = Lines[1]

C4_Witness ==
    /\ block.mounted
    /\ Len(Lines) = 2
    /\ Lines[1] # Lines[2]
    /\ Len(calls) = 2
    /\ Len(writes) = 2
    /\ clipboard = Some(Lines[1])

\* C10: the displayed text is the lines in their order with one newline
\* between consecutive lines: line i sits unchanged at its offset, a newline
\* follows every line but the last, and there is nothing else.
C10_ContentIsLinesJoined ==
    block.mounted =>
        LET n == Len(Lines)
            c == block.out.content
        IN  /\ n = 0 => c = << >>
            /\ n > 0 => Len(c) = Offset(Lines, n) + Len(Lines[n])
            /\ \A i \in 1..n :
                  SubSeq(c, Offset(Lines, i) + 1,
                         Offset(Lines, i) + Len(Lines[i])) = Lines[i]
            /\ \A i \in 2..n : c[Offset(Lines, i)] = NL

C10_Witness ==
    /\ block.mounted
    /\ Lines = << << "cmd1" >>, << "cargo", SP, "run" >> >>
    /\ block.out.content = << "cmd1", NL, "cargo", SP, "run" >>

-----------------------------------------------------------------------------
(* Properties of concurrent copies, checked under SpecClipboardPage.       *)

\* The text call i asks the clipboard to hold.
Payload(i) == ToString(calls[i].text)

\* In every state: each invocation has issued its own write with its own
\* payload (none is merged into or replaced by another), and the clipboard
\* holds the payload of the write it applied last, or its initial content
\* when it applied none.
C12_State ==
    /\ clipboardApi = "present" =>
          /\ Len(writes) = Len(calls)
          /\ \A i \in 1..Len(calls) :
                /\ Cardinality(WritesOf(i)) = 1
                /\ \A k \in WritesOf(i) : writes[k].text = Payload(i)
    /\ clipboard =
          IF applied = << >> THEN Undefined
          ELSE Some(Payload(applied[Len(applied)]))
    /\ \A i \in 1..Len(calls) :
          calls[i].outcome = "ok" => \E k \in 1..Len(applied) : applied[k] = i

\* In every step: an invocation is added without touching the earlier ones,
\* pending or not; a step changes at most one call; and the step in which a
\* write fails changes nothing but that call and the log.
C12_Step ==
    LET n == Len(calls)
    IN  /\ Len(calls') \in {n, n + 1}
        /\ Len(calls') = n + 1 =>
              /\ SubSeq(calls', 1, n) = calls
              /\ clipboard' = clipboard /\ applied' = applied
              /\ clipboardApi = "present" =>
                    /\ calls'[n + 1].pc = "await"
                    /\ writes' = Append(writes,
                                        [call |-> n + 1,
                                         text |-> ToString(calls'[n + 1].text)])
        /\ Len(calls') = n =>
              \A i, j \in 1..n :
                  (calls'[i] # calls[i] /\ j # i) => calls'[j] = calls[j]
        /\ \A i \in 1..n :
              (Len(calls') = n /\ calls[i].pc = "await"
                  /\ calls'[i].outcome = "rejected") =>
                    /\ clipboard' = clipboard
                    /\ applied' = applied
                    /\ writes' = writes

\* C12: in every interleaving of copy invocations, on one block or on two,
\* each invocation issues its own write at once, whatever is pending; a
\* failing write affects no other call and not the clipboard; and the
\* clipboard holds the payload of the write it applied last.
C12_IndependentCopies == []C12_State /\ [][C12_Step]_vars

\* Two copies on different blocks, both pending at once, applied in the
\* reverse of their call order: the clipboard holds the first call's payload.
C12_Witness ==
    /\ Len(calls) = 2
    /\ calls[1].text # calls[2].text
    /\ applied = << 2, 1 >>
    /\ calls[1].pc = "done" /\ calls[2].pc = "done"
    /\ clipboard = Some(Payload(1))

-----------------------------------------------------------------------------
(* Properties of the copy button, checked under SpecClipboard.             *)

\* C16: the onclick handler ClipboardCommandLines passes to Button is on the
\* rendered button element, and every activation of the copy button has led
\* to exactly one call of writeToClipboard, with the block's first line when
\* the block has one: no activation is lost.
C16_EveryClickCopies ==
    block.mounted =>
        /\ block.out.copyButton.tag = "button"
        /\ block.out.copyButton.onclick
        /\ Len(calls) = clicks
        /\ Lines # << >> =>
              \A i \in 1..Len(calls) : calls[i].text = Some(Lines[1])

-----------------------------------------------------------------------------
(* Properties of the feature-section selector, checked under SpecFeatures. *)

\* C17: after any sequence of section-button clicks, currentSection is a key
\* of featuresMeta: "Comments" before any click, then the section of the
\* button clicked last; currentScreenshot is the screenshot of
\* featuresMeta[currentSection], and it is the one displayed.
C17_SectionAndScreenshotInSync ==
    /\ currentSection \in {"Comments", "ContextualHelp", "Settings"}
    /\ currentSection =
          IF clicked = << >> THEN "Comments" ELSE clicked[Len(clicked)]
    /\ currentScreenshot = featuresMeta[currentSection].screenshot
    /\ imgSrc = currentScreenshot
    /\ imgSrc \in {"comments.png", "contextual-help.png", "settings.png"}

C17_Witness ==
    /\ Len(clicked) = 3
    /\ clicked[2] = "Comments"
    /\ clicked[3] = "Settings"
    /\ currentSection = "Settings"
    /\ imgSrc = "settings.png"

=============================================================================
